---- MODULE Spec2Model ----
(***************************************************************************)
(* The AVP protocol engine of NexusClaw (avp.c): the single context        *)
(* avp_ctx_t, the request dispatcher avp_process with its ten operation    *)
(* handlers, the session check and the response encoder; and of the        *)
(* libtropic integration (avp_tropic.c) the handle it attaches to the       *)
(* context: tropic_handle is ctx->tropic_handle, lt_initialized the static  *)
(* flag of avp_tropic.c, ret the value the last call of avp_init or         *)
(* avp_tropic_init returned.                                                *)
(***************************************************************************)
EXTENDS Integers, Sequences, FiniteSets, TLC

VARIABLES session, secrets, secret_count, now, last, resp,
          tropic_handle, lt_initialized, ret

vars == <<session, secrets, secret_count, now, last, resp,
          tropic_handle, lt_initialized, ret>>

(***************************************************************************)
(* uint32_t.  A value is held as two 16-bit limbs <<hi, lo>>, so that the  *)
(* full 32-bit range and the wrap of an addition are kept.                 *)
(***************************************************************************)
Limb == 2^16

U32(n) == <<n \div Limb, n % Limb>>

U32Max == <<Limb - 1, Limb - 1>>

\* a + b in uint32_t: the carry out of the high limb is dropped
U32Add(a, b) ==
    LET lo == a[2] + b[2]
        hi == a[1] + b[1] + (lo \div Limb)
    IN  <<hi % Limb, lo % Limb>>

U32Lt(a, b) == a[1] < b[1] \/ (a[1] = b[1] /\ a[2] < b[2])

U32Le(a, b) == a = b \/ U32Lt(a, b)

\* a + b as a mathematical integer: three limbs <<carry, hi, lo>>
WideAdd(a, b) ==
    LET lo == a[2] + b[2]
        hi == a[1] + b[1] + (lo \div Limb)
    IN  <<hi \div Limb, hi % Limb, lo % Limb>>

Wide(a) == <<0, a[1], a[2]>>

WideLt(x, y) ==
    \/ x[1] < y[1]
    \/ x[1] = y[1] /\ x[2] < y[2]
    \/ x[1] = y[1] /\ x[2] = y[2] /\ x[3] < y[3]

(***************************************************************************)
(* Configuration (avp.h, avp.c)                                            *)
(***************************************************************************)
AVP_MAX_JSON_LEN == 1024

AVP_MAX_NAME_LEN == 64

AVP_MAX_SECRETS == 32

AVP_DEFAULT_TTL == 300

AVP_MAX_PIN_ATTEMPTS == 5

SLOT_SECRETS_START == 96

MinPinLen == 4

SessionOps ==
    {"STORE", "RETRIEVE", "DELETE", "LIST", "ROTATE", "HW_SIGN", "HW_ATTEST"}

KnownOps == SessionOps \cup {"DISCOVER", "AUTHENTICATE", "HW_CHALLENGE"}

avp_error_str(err) ==
    CASE err = "AVP_OK" -> "OK"
      [] err = "AVP_ERR_PARSE" -> "PARSE_ERROR"
      [] err = "AVP_ERR_INVALID_OP" -> "INVALID_OPERATION"
      [] err = "AVP_ERR_INVALID_PARAM" -> "INVALID_PARAMETER"
      [] err = "AVP_ERR_NOT_AUTHENTICATED" -> "NOT_AUTHENTICATED"
      [] err = "AVP_ERR_SESSION_EXPIRED" -> "SESSION_EXPIRED"
      [] err = "AVP_ERR_SECRET_NOT_FOUND" -> "SECRET_NOT_FOUND"
      [] err = "AVP_ERR_CAPACITY" -> "CAPACITY_EXCEEDED"
      [] err = "AVP_ERR_HARDWARE" -> "HARDWARE_ERROR"
      [] err = "AVP_ERR_CRYPTO" -> "CRYPTO_ERROR"
      [] err = "AVP_ERR_PIN_INVALID" -> "PIN_INVALID"
      [] err = "AVP_ERR_PIN_LOCKED" -> "PIN_LOCKED"
      [] err = "AVP_ERR_INTERNAL" -> "INTERNAL_ERROR"
      [] OTHER -> "UNKNOWN_ERROR"

(***************************************************************************)
(* Data structures.  A cleared structure is the all-zero one memset        *)
(* leaves.                                                                 *)
(***************************************************************************)
Index == 0 .. (AVP_MAX_SECRETS - 1)

ZeroMeta ==
    [name |-> "", slot_index |-> 0, created_at |-> U32(0),
     updated_at |-> U32(0), in_use |-> FALSE]

ZeroSession ==
    [active |-> FALSE, session_id |-> "", workspace |-> "",
     created_at |-> U32(0), ttl |-> U32(0), pin_attempts |-> 0]

ZeroResp ==
    [ok |-> FALSE, error_code |-> "AVP_OK", error_msg |-> "",
     discover_version |-> "", discover_serial |-> "",
     discover_max_secrets |-> 0, discover_max_secret_size |-> 0,
     auth_session_id |-> "", auth_expires_in |-> U32(0), auth_workspace |-> "",
     retrieve_value |-> "", list_names |-> <<>>,
     hw_challenge_challenge |-> "", hw_challenge_verified |-> FALSE,
     hw_challenge_model |-> "", hw_challenge_serial |-> "",
     hw_sign_signature |-> "", hw_attest_attestation |-> ""]

\* the error return of a handler: resp->ok = false; resp->error_code = err
Fail(r, err) == [r EXCEPT !.ok = FALSE, !.error_code = err]

(***************************************************************************)
(* Helper functions                                                        *)
(***************************************************************************)
HexDigits ==
    <<"0", "1", "2", "3", "4", "5", "6", "7",
      "8", "9", "a", "b", "c", "d", "e", "f">>

RECURSIVE hex_encode(_)
hex_encode(data) ==
    IF data = <<>> THEN ""
    ELSE HexDigits[(Head(data) \div 16) + 1] \o HexDigits[(Head(data) % 16) + 1]
         \o hex_encode(Tail(data))

generate_session_id(random) == hex_encode(random)

\* mutant: the scan starts at the second entry
find_secret_by_name_SkipFirst(tbl, name) ==
    LET hits == {i \in Index : i > 0 /\ tbl[i].in_use /\ tbl[i].name = name}
    IN  IF hits = {} THEN -1
        ELSE CHOOSE i \in hits : \A j \in hits : i <= j

\* the lowest index of an in_use entry that carries the name, or -1
find_secret_by_name(tbl, name) ==
    LET hits == {i \in Index : tbl[i].in_use /\ tbl[i].name = name}
    IN  IF hits = {} THEN -1
        ELSE CHOOSE i \in hits : \A j \in hits : i <= j

\* mutant: a full table yields its first entry
find_free_slot_Wrap(tbl) ==
    LET free == {i \in Index : ~tbl[i].in_use}
    IN  IF free = {} THEN 0
        ELSE CHOOSE i \in free : \A j \in free : i <= j

\* mutant: the scan for a free entry runs from the top of the table
find_free_slot_Highest(tbl) ==
    LET free == {i \in Index : ~tbl[i].in_use}
    IN  IF free = {} THEN -1
        ELSE CHOOSE i \in free : \A j \in free : i >= j

\* the lowest index of an entry that is not in_use, or -1
find_free_slot(tbl) ==
    LET free == {i \in Index : ~tbl[i].in_use}
    IN  IF free = {} THEN -1
        ELSE CHOOSE i \in free : \A j \in free : i <= j

InUse(tbl) == {i \in Index : tbl[i].in_use}

\* what a bounded copy (strncpy into a zeroed buffer, or the parser's copy
\* loop) keeps of s: its first n characters
Strncpy(s, n) == IF Len(s) <= n THEN s ELSE SubSeq(s, 1, n)

(***************************************************************************)
(* JSON parsing.  A request is the JSON object the host sent, held by its  *)
(* fields: each field is <<>> when the key is absent and <<v>> when it is  *)
(* present with value v.  The object is written with its keys in the order *)
(* of FieldOrder; ttl and requested_ttl carry numbers, the other keys      *)
(* strings that hold no quote or colon: a string is what the parser's copy *)
(* reads up to the first quote, so it may end in a backslash.  The parser  *)
(* scans the text: it looks for the first "key" (quotes included), which   *)
(* is a key or a string value spelled like the key, and reads what follows *)
(* the next colon.                                                         *)
(***************************************************************************)
FieldOrder ==
    <<"op", "session_id", "workspace", "name", "value", "auth_method", "pin",
      "key_name", "ttl", "requested_ttl", "data">>

IntKeys == {"ttl", "requested_ttl"}

\* the least member of a nonempty set of numbers
Least(S) == CHOOSE i \in S : \A j \in S : i <= j

\* the members present in the text, by their place in FieldOrder
Present(json) == {i \in DOMAIN FieldOrder : json[FieldOrder[i]] # <<>>}

\* the places where the text holds "key" in quotes: the member with that key
\* and the members whose string value is spelled like the key
Hits(json, key) ==
    {i \in Present(json) :
        \/ FieldOrder[i] = key
        \/ /\ FieldOrder[i] \notin IntKeys
           /\ json[FieldOrder[i]][1] = key}

\* the member whose value follows the next colon after place i
AfterColon(json, i, key) ==
    IF FieldOrder[i] = key THEN i
    ELSE IF \E j \in Present(json) : j > i
         THEN Least({j \in Present(json) : j > i})
         ELSE 0

\* the place in FieldOrder of the member whose value follows the first colon
\* after the first "key" in the text, or 0: the member with that key, or the
\* one after a member whose string value is spelled like the key
ScanFor(json, key) ==
    IF Hits(json, key) = {} THEN 0
    ELSE AfterColon(json, Least(Hits(json, key)), key)

\* the string value at place i, cut to max_len - 1, or NULL (here <<>>)
StringAt(json, i, max_len) ==
    IF i = 0 \/ FieldOrder[i] \in IntKeys THEN <<>>
    ELSE <<Strncpy(json[FieldOrder[i]][1], max_len - 1)>>

\* NULL (here <<>>) when no string follows, else the string cut to max_len - 1
json_find_string(json, key, max_len) ==
    StringAt(json, ScanFor(json, key), max_len)

\* the number at place i, or the output untouched
IntAt(json, i, out) ==
    IF i = 0 \/ FieldOrder[i] \notin IntKeys THEN out
    ELSE json[FieldOrder[i]][1]

\* -1 and the output untouched when no number follows, else the number
json_find_int(json, key, out) ==
    IntAt(json, ScanFor(json, key), out)

\* the field of the zeroed command after an optional json_find_string
OrEmpty(f) == IF f = <<>> THEN "" ELSE f[1]

Field(json, key, max_len) == OrEmpty(json_find_string(json, key, max_len))

\* the value of a hexadecimal digit, or -1
HexValue(ch) ==
    LET ds == {d \in 1 .. 16 : HexDigits[d] = ch}
    IN  IF ds = {} THEN -1 ELSE (CHOOSE d \in ds : TRUE) - 1

\* sscanf(&hex[2 * i], "%2x", &byte) for each pair in turn: a pair whose
\* first character is no digit fails, a pair whose second character is no
\* digit is read as its first digit alone
\* the pair at the head of hex, given the values of its two characters
HexPair(hi, lo) == IF lo < 0 THEN hi ELSE 16 * hi + lo

RECURSIVE HexPairs(_, _)
HexPairs(hex, out) ==
    IF Len(hex) < 2 THEN [len |-> Len(out), out |-> out]
    ELSE IF HexValue(SubSeq(hex, 1, 1)) < 0 THEN [len |-> -1, out |-> out]
         ELSE HexPairs(SubSeq(hex, 3, Len(hex)),
                       Append(out, HexPair(HexValue(SubSeq(hex, 1, 1)),
                                           HexValue(SubSeq(hex, 2, 2)))))

\* the length decoded, or -1, and the bytes written to out
hex_decode(hex, max_len) ==
    IF Len(hex) % 2 # 0 \/ Len(hex) \div 2 > max_len
    THEN [len |-> -1, out |-> <<>>]
    ELSE HexPairs(hex, <<>>)

\* the data member: absent leaves the zeroed buffer, present is decoded
DecodeData(data_hex) ==
    IF data_hex = <<>> THEN [len |-> 0, out |-> <<>>]
    ELSE hex_decode(data_hex[1], 256)

\* the command filled by the optional members
ParsedCmd(json, op, dec) ==
    [op |-> op,
     session_id |-> Field(json, "session_id", 33),
     workspace |-> Field(json, "workspace", AVP_MAX_NAME_LEN),
     name |-> Field(json, "name", AVP_MAX_NAME_LEN),
     value |-> Field(json, "value", 512),
     auth_method |-> Field(json, "auth_method", 16),
     pin |-> Field(json, "pin", 16),
     key_name |-> Field(json, "key_name", AVP_MAX_NAME_LEN),
     ttl |-> json_find_int(json, "requested_ttl",
                 json_find_int(json, "ttl", U32(AVP_DEFAULT_TTL))),
     data |-> dec.out,
     data_len |-> IF dec.len > 0 THEN dec.len ELSE 0]

\* the return value for the op member found
ParseRet(op_str) ==
    IF op_str = <<>> THEN "AVP_ERR_PARSE"
    ELSE IF op_str[1] \notin KnownOps THEN "AVP_ERR_INVALID_OP" ELSE "AVP_OK"

avp_parse_cmd(json) ==
    [ret |-> ParseRet(json_find_string(json, "op", 32)),
     cmd |-> ParsedCmd(json, OrEmpty(json_find_string(json, "op", 32)),
                       DecodeData(json_find_string(json, "data", 512)))]

(***************************************************************************)
(* Session check.  avp_session_valid returns the verdict and, as its side  *)
(* effect, clears the active flag of a session it finds expired.           *)
(***************************************************************************)
\* mutant: the expiry of the session is never looked at
avp_session_valid_NoExpiry(s, t) == [valid |-> s.active, session |-> s]

\* mutant: the session still counts as live at the second it expires
avp_session_valid_OffByOne(s, t) ==
    IF ~s.active THEN [valid |-> FALSE, session |-> s]
    ELSE LET expires_at == U32Add(s.created_at, s.ttl)
         IN  IF U32Lt(expires_at, t)
             THEN [valid |-> FALSE, session |-> [s EXCEPT !.active = FALSE]]
             ELSE [valid |-> TRUE, session |-> s]

avp_session_valid(s, t) ==
    IF ~s.active THEN [valid |-> FALSE, session |-> s]
    ELSE LET expires_at == U32Add(s.created_at, s.ttl)
         IN  IF ~U32Lt(t, expires_at)
             THEN [valid |-> FALSE, session |-> [s EXCEPT !.active = FALSE]]
             ELSE [valid |-> TRUE, session |-> s]

\* mutant: only the session id is zeroed
avp_session_invalidate_KeepsActive(s) == [s EXCEPT !.session_id = ""]

avp_session_invalidate(s) == [s EXCEPT !.active = FALSE, !.session_id = ""]

(***************************************************************************)
(* Operation handlers.  c is the context (session, secrets, secret_count), *)
(* t the value get_time() returns while the request is served, r the       *)
(* zeroed response; the result is the context and the response afterwards. *)
(***************************************************************************)
\* mutant: DISCOVER ends the session
avp_op_discover_EndsSession(c, r) ==
    [ctx |-> [c EXCEPT !.session.active = FALSE],
     resp |-> [r EXCEPT !.ok = TRUE,
                        !.discover_version = "0.1.0",
                        !.discover_serial = "NC00000001",
                        !.discover_max_secrets = AVP_MAX_SECRETS,
                        !.discover_max_secret_size = 256]]

avp_op_discover(c, r) ==
    [ctx |-> c,
     resp |-> [r EXCEPT !.ok = TRUE,
                        !.discover_version = "0.1.0",
                        !.discover_serial = "NC00000001",
                        !.discover_max_secrets = AVP_MAX_SECRETS,
                        !.discover_max_secret_size = 256]]

\* mutant: the lockout test lets the counter pass the threshold
PinLocked_Above(s) == s.pin_attempts > AVP_MAX_PIN_ATTEMPTS

\* the PIN lockout test
PinLocked(s) == s.pin_attempts >= AVP_MAX_PIN_ATTEMPTS

\* mutant: a successful AUTHENTICATE keeps the count of failed attempts
NewSession_KeepAttempts(old, cmd, t, random) ==
    [active |-> TRUE,
     session_id |-> generate_session_id(random),
     workspace |-> Strncpy(IF cmd.workspace # "" THEN cmd.workspace
                           ELSE "default", AVP_MAX_NAME_LEN - 1),
     created_at |-> t,
     ttl |-> IF cmd.ttl # U32(0) THEN cmd.ttl ELSE U32(AVP_DEFAULT_TTL),
     pin_attempts |-> old.pin_attempts]

\* mutant: a session that is still active keeps its creation time
NewSession_KeepsCreated(old, cmd, t, random) ==
    [active |-> TRUE,
     session_id |-> generate_session_id(random),
     workspace |-> Strncpy(IF cmd.workspace # "" THEN cmd.workspace
                           ELSE "default", AVP_MAX_NAME_LEN - 1),
     created_at |-> IF old.active THEN old.created_at ELSE t,
     ttl |-> IF cmd.ttl # U32(0) THEN cmd.ttl ELSE U32(AVP_DEFAULT_TTL),
     pin_attempts |-> 0]

\* the session record a successful AUTHENTICATE writes over the old one
NewSession(old, cmd, t, random) ==
    [active |-> TRUE,
     session_id |-> generate_session_id(random),
     workspace |-> Strncpy(IF cmd.workspace # "" THEN cmd.workspace
                           ELSE "default", AVP_MAX_NAME_LEN - 1),
     created_at |-> t,
     ttl |-> IF cmd.ttl # U32(0) THEN cmd.ttl ELSE U32(AVP_DEFAULT_TTL),
     pin_attempts |-> 0]

\* mutant: a refused PIN ends the session
avp_op_authenticate_RefusalEndsSession(c, cmd, t, random, r) ==
    IF PinLocked(c.session)
    THEN [ctx |-> c, resp |-> Fail(r, "AVP_ERR_PIN_LOCKED")]
    ELSE IF Len(cmd.pin) < MinPinLen
    THEN [ctx |-> [c EXCEPT !.session.pin_attempts = (@ + 1) % 256,
                            !.session.active = FALSE],
          resp |-> Fail(r, "AVP_ERR_PIN_INVALID")]
    ELSE [ctx |-> [c EXCEPT !.session = NewSession(c.session, cmd, t, random)],
          resp |-> [r EXCEPT !.ok = TRUE,
                             !.auth_session_id = generate_session_id(random),
                             !.auth_expires_in =
                                 NewSession(c.session, cmd, t, random).ttl,
                             !.auth_workspace =
                                 NewSession(c.session, cmd, t, random).workspace]]

\* mutant: a new session starts with an empty index
avp_op_authenticate_ClearsIndex(c, cmd, t, random, r) ==
    IF PinLocked(c.session)
    THEN [ctx |-> c, resp |-> Fail(r, "AVP_ERR_PIN_LOCKED")]
    ELSE IF Len(cmd.pin) < MinPinLen
    THEN [ctx |-> [c EXCEPT !.session.pin_attempts = (@ + 1) % 256],
          resp |-> Fail(r, "AVP_ERR_PIN_INVALID")]
    ELSE [ctx |-> [session |-> NewSession(c.session, cmd, t, random),
                   secrets |-> [i \in Index |-> ZeroMeta],
                   secret_count |-> 0],
          resp |-> [r EXCEPT !.ok = TRUE,
                             !.auth_session_id = generate_session_id(random),
                             !.auth_expires_in =
                                 NewSession(c.session, cmd, t, random).ttl,
                             !.auth_workspace =
                                 NewSession(c.session, cmd, t, random).workspace]]

avp_op_authenticate(c, cmd, t, random, r) ==
    IF PinLocked(c.session)
    THEN [ctx |-> c, resp |-> Fail(r, "AVP_ERR_PIN_LOCKED")]
    ELSE IF Len(cmd.pin) < MinPinLen
    THEN [ctx |-> [c EXCEPT !.session.pin_attempts = (@ + 1) % 256],
          resp |-> Fail(r, "AVP_ERR_PIN_INVALID")]
    ELSE LET s == NewSession(c.session, cmd, t, random)
         IN  [ctx |-> [c EXCEPT !.session = s],
              resp |-> [r EXCEPT !.ok = TRUE,
                                 !.auth_session_id = s.session_id,
                                 !.auth_expires_in = s.ttl,
                                 !.auth_workspace = s.workspace]]

\* mutant: the slot is taken from the occupancy count
SlotFor_ByCount(c, idx) == SLOT_SECRETS_START + c.secret_count

\* the data slot of the secure element a new entry at idx is given
SlotFor(c, idx) == SLOT_SECRETS_START + idx

\* mutant: a new entry keeps the value next to the name
avp_op_store_KeepsValue(c, cmd, t, r) ==
    LET chk == avp_session_valid(c.session, t)
        c1 == [c EXCEPT !.session = chk.session]
        found == find_secret_by_name(c.secrets, cmd.name)
        free == find_free_slot(c.secrets)
    IN  IF ~chk.valid
        THEN [ctx |-> c1, resp |-> Fail(r, "AVP_ERR_NOT_AUTHENTICATED")]
        ELSE IF found < 0 /\ free < 0
        THEN [ctx |-> c1, resp |-> Fail(r, "AVP_ERR_CAPACITY")]
        ELSE IF found < 0
        THEN [ctx |-> [c1 EXCEPT
                         !.secrets[free] =
                             [name |-> Strncpy(cmd.name, AVP_MAX_NAME_LEN - 1),
                              slot_index |-> SlotFor(c, free),
                              created_at |-> t,
                              updated_at |-> t,
                              in_use |-> TRUE,
                              value |-> cmd.value],
                         !.secret_count = (@ + 1) % 256],
              resp |-> [r EXCEPT !.ok = TRUE]]
        ELSE [ctx |-> [c1 EXCEPT !.secrets[found].updated_at = t],
              resp |-> [r EXCEPT !.ok = TRUE]]

\* mutant: storing a name again also resets the creation time of its entry
avp_op_store_ResetsCreated(c, cmd, t, r) ==
    LET chk == avp_session_valid(c.session, t)
        c1 == [c EXCEPT !.session = chk.session]
        found == find_secret_by_name(c.secrets, cmd.name)
        free == find_free_slot(c.secrets)
    IN  IF ~chk.valid
        THEN [ctx |-> c1, resp |-> Fail(r, "AVP_ERR_NOT_AUTHENTICATED")]
        ELSE IF found < 0 /\ free < 0
        THEN [ctx |-> c1, resp |-> Fail(r, "AVP_ERR_CAPACITY")]
        ELSE IF found < 0
        THEN [ctx |-> [c1 EXCEPT
                         !.secrets[free] =
                             [name |-> Strncpy(cmd.name, AVP_MAX_NAME_LEN - 1),
                              slot_index |-> SlotFor(c, free),
                              created_at |-> t,
                              updated_at |-> t,
                              in_use |-> TRUE],
                         !.secret_count = (@ + 1) % 256],
              resp |-> [r EXCEPT !.ok = TRUE]]
        ELSE [ctx |-> [c1 EXCEPT !.secrets[found].updated_at = t,
                                 !.secrets[found].created_at = t],
              resp |-> [r EXCEPT !.ok = TRUE]]

avp_op_store(c, cmd, t, r) ==
    LET chk == avp_session_valid(c.session, t)
        c1 == [c EXCEPT !.session = chk.session]
        found == find_secret_by_name(c.secrets, cmd.name)
        free == find_free_slot(c.secrets)
    IN  IF ~chk.valid
        THEN [ctx |-> c1, resp |-> Fail(r, "AVP_ERR_NOT_AUTHENTICATED")]
        ELSE IF found < 0 /\ free < 0
        THEN [ctx |-> c1, resp |-> Fail(r, "AVP_ERR_CAPACITY")]
        ELSE IF found < 0
        THEN [ctx |-> [c1 EXCEPT
                         !.secrets[free] =
                             [name |-> Strncpy(cmd.name, AVP_MAX_NAME_LEN - 1),
                              slot_index |-> SlotFor(c, free),
                              created_at |-> t,
                              updated_at |-> t,
                              in_use |-> TRUE],
                         !.secret_count = (@ + 1) % 256],
              resp |-> [r EXCEPT !.ok = TRUE]]
        ELSE [ctx |-> [c1 EXCEPT !.secrets[found].updated_at = t],
              resp |-> [r EXCEPT !.ok = TRUE]]

\* mutant: the session_id of the request has to be the one of the session
avp_op_retrieve_ChecksId(c, cmd, t, r) ==
    LET chk == avp_session_valid(c.session, t)
        c1 == [c EXCEPT !.session = chk.session]
    IN  IF ~chk.valid \/ cmd.session_id # c.session.session_id
        THEN [ctx |-> c1, resp |-> Fail(r, "AVP_ERR_NOT_AUTHENTICATED")]
        ELSE IF find_secret_by_name(c.secrets, cmd.name) < 0
        THEN [ctx |-> c1, resp |-> Fail(r, "AVP_ERR_SECRET_NOT_FOUND")]
        ELSE [ctx |-> c1,
              resp |-> [r EXCEPT !.ok = TRUE,
                                 !.retrieve_value = "[stored_value]"]]

avp_op_retrieve(c, cmd, t, r) ==
    LET chk == avp_session_valid(c.session, t)
        c1 == [c EXCEPT !.session = chk.session]
    IN  IF ~chk.valid
        THEN [ctx |-> c1, resp |-> Fail(r, "AVP_ERR_NOT_AUTHENTICATED")]
        ELSE IF find_secret_by_name(c.secrets, cmd.name) < 0
        THEN [ctx |-> c1, resp |-> Fail(r, "AVP_ERR_SECRET_NOT_FOUND")]
        ELSE [ctx |-> c1,
              resp |-> [r EXCEPT !.ok = TRUE,
                                 !.retrieve_value = "[stored_value]"]]

\* mutant: the entry is left as it was, only the count goes down
avp_op_delete_KeepsEntry(c, cmd, t, r) ==
    LET chk == avp_session_valid(c.session, t)
        c1 == [c EXCEPT !.session = chk.session]
        idx == find_secret_by_name(c.secrets, cmd.name)
    IN  IF ~chk.valid
        THEN [ctx |-> c1, resp |-> Fail(r, "AVP_ERR_NOT_AUTHENTICATED")]
        ELSE IF idx < 0
        THEN [ctx |-> c1, resp |-> Fail(r, "AVP_ERR_SECRET_NOT_FOUND")]
        ELSE [ctx |-> [c1 EXCEPT !.secret_count = (@ + 255) % 256],
              resp |-> [r EXCEPT !.ok = TRUE]]

\* mutant: DELETE clears the entry and leaves the count alone
avp_op_delete_KeepsCount(c, cmd, t, r) ==
    LET chk == avp_session_valid(c.session, t)
        c1 == [c EXCEPT !.session = chk.session]
        found == find_secret_by_name(c.secrets, cmd.name)
    IN  IF ~chk.valid
        THEN [ctx |-> c1, resp |-> Fail(r, "AVP_ERR_NOT_AUTHENTICATED")]
        ELSE IF found < 0
        THEN [ctx |-> c1, resp |-> Fail(r, "AVP_ERR_SECRET_NOT_FOUND")]
        ELSE [ctx |-> [c1 EXCEPT !.secrets[found] = ZeroMeta],
              resp |-> [r EXCEPT !.ok = TRUE]]

avp_op_delete(c, cmd, t, r) ==
    LET chk == avp_session_valid(c.session, t)
        c1 == [c EXCEPT !.session = chk.session]
        idx == find_secret_by_name(c.secrets, cmd.name)
    IN  IF ~chk.valid
        THEN [ctx |-> c1, resp |-> Fail(r, "AVP_ERR_NOT_AUTHENTICATED")]
        ELSE IF idx < 0
        THEN [ctx |-> c1, resp |-> Fail(r, "AVP_ERR_SECRET_NOT_FOUND")]
        ELSE [ctx |-> [c1 EXCEPT !.secrets[idx] = ZeroMeta,
                                 !.secret_count = (@ + 255) % 256],
              resp |-> [r EXCEPT !.ok = TRUE]]

\* the names of the in_use entries, by ascending table index
RECURSIVE ListNames(_, _)
ListNames(tbl, i) ==
    IF i >= AVP_MAX_SECRETS THEN <<>>
    ELSE IF tbl[i].in_use
         THEN <<Strncpy(tbl[i].name, AVP_MAX_NAME_LEN - 1)>> \o ListNames(tbl, i + 1)
         ELSE ListNames(tbl, i + 1)

\* mutant: a LIST that is answered starts the lifetime of the session again
avp_op_list_ExtendsSession(c, cmd, t, r) ==
    LET chk == avp_session_valid(c.session, t)
        c1 == [c EXCEPT !.session = chk.session]
    IN  IF ~chk.valid
        THEN [ctx |-> c1, resp |-> Fail(r, "AVP_ERR_NOT_AUTHENTICATED")]
        ELSE [ctx |-> [c1 EXCEPT !.session.created_at = t],
              resp |-> [r EXCEPT !.ok = TRUE,
                                 !.list_names = ListNames(c.secrets, 0)]]

avp_op_list(c, cmd, t, r) ==
    LET chk == avp_session_valid(c.session, t)
        c1 == [c EXCEPT !.session = chk.session]
    IN  IF ~chk.valid
        THEN [ctx |-> c1, resp |-> Fail(r, "AVP_ERR_NOT_AUTHENTICATED")]
        ELSE [ctx |-> c1,
              resp |-> [r EXCEPT !.ok = TRUE,
                                 !.list_names = ListNames(c.secrets, 0)]]

\* mutant: ROTATE of a name that is not in the index fails
avp_op_rotate_MustExist(c, cmd, t, r) ==
    IF find_secret_by_name(c.secrets, cmd.name) < 0
    THEN [ctx |-> c, resp |-> Fail(r, "AVP_ERR_SECRET_NOT_FOUND")]
    ELSE avp_op_store(c, cmd, t, r)

avp_op_rotate(c, cmd, t, r) == avp_op_store(c, cmd, t, r)

avp_op_hw_challenge(c, cmd, r) ==
    [ctx |-> c,
     resp |-> [r EXCEPT !.ok = TRUE,
                        !.hw_challenge_verified = TRUE,
                        !.hw_challenge_model = "TROPIC01",
                        !.hw_challenge_serial = "NC00000001"]]

avp_op_hw_sign(c, cmd, t, random, r) ==
    LET chk == avp_session_valid(c.session, t)
        c1 == [c EXCEPT !.session = chk.session]
    IN  IF ~chk.valid
        THEN [ctx |-> c1, resp |-> Fail(r, "AVP_ERR_NOT_AUTHENTICATED")]
        ELSE [ctx |-> c1,
              resp |-> [r EXCEPT !.ok = TRUE,
                                 !.hw_sign_signature = hex_encode(random)]]

avp_op_hw_attest(c, cmd, t, r) ==
    LET chk == avp_session_valid(c.session, t)
        c1 == [c EXCEPT !.session = chk.session]
    IN  IF ~chk.valid
        THEN [ctx |-> c1, resp |-> Fail(r, "AVP_ERR_NOT_AUTHENTICATED")]
        ELSE [ctx |-> c1,
              resp |-> [r EXCEPT !.ok = TRUE,
                                 !.hw_attest_attestation =
                                     "{\"model\":\"TROPIC01\",\"firmware\":\"1.0.0\"}"]]

(***************************************************************************)
(* Response formatting.  The result carries the return code, the text the  *)
(* snprintf calls asked for (complete whenever the code is AVP_OK), its    *)
(* length n, the names a LIST response carries, and whether a call was     *)
(* made at an offset beyond the buffer.                                    *)
(***************************************************************************)
\* %u of a uint32_t
RECURSIVE U32Dec(_)
U32Dec(a) ==
    IF a[1] = 0 /\ a[2] < 10 THEN HexDigits[a[2] + 1]
    ELSE LET rest == (a[1] % 10) * Limb + a[2]
         IN  U32Dec(<<a[1] \div 10, rest \div 10>>) \o HexDigits[(rest % 10) + 1]

\* the loop over resp->list.names, then the closing "]}"
RECURSIVE ListLoop(_, _, _, _)
ListLoop(names, i, st, len) ==
    IF i < Len(names) /\ st.n < len - 10
    THEN LET piece == (IF i > 0 THEN "," ELSE "") \o "\"" \o names[i + 1] \o "\""
         IN  ListLoop(names, i + 1,
                      [n |-> st.n + Len(piece), text |-> st.text \o piece,
                       names |-> Append(st.names, names[i + 1]), oob |-> FALSE],
                      len)
    ELSE [n |-> st.n + 2, text |-> st.text \o "]}", names |-> st.names,
          oob |-> st.n > len]

FormatBody(r, len) ==
    IF ~r.ok
    THEN LET code == avp_error_str(r.error_code)
             text == "{\"ok\":false,\"error\":\"" \o code \o "\",\"message\":\""
                     \o (IF r.error_msg # "" THEN r.error_msg ELSE code) \o "\"}"
         IN  [n |-> Len(text), text |-> text, names |-> <<>>, oob |-> FALSE]
    ELSE IF r.discover_version # ""
    THEN LET text == "{\"ok\":true,\"version\":\"" \o r.discover_version
                     \o "\",\"backend_type\":\"hardware\""
                     \o ",\"manufacturer\":\"AVP Protocol\""
                     \o ",\"model\":\"NexusClaw\""
                     \o ",\"serial\":\"" \o r.discover_serial
                     \o "\",\"capabilities\":{\"hw_sign\":true,\"hw_attest\":true"
                     \o ",\"max_secrets\":" \o ToString(r.discover_max_secrets)
                     \o ",\"max_secret_size\":" \o ToString(r.discover_max_secret_size)
                     \o "}}"
         IN  [n |-> Len(text), text |-> text, names |-> <<>>, oob |-> FALSE]
    ELSE IF r.auth_session_id # ""
    THEN LET text == "{\"ok\":true,\"session_id\":\"" \o r.auth_session_id
                     \o "\",\"expires_in\":" \o U32Dec(r.auth_expires_in)
                     \o ",\"workspace\":\"" \o r.auth_workspace \o "\"}"
         IN  [n |-> Len(text), text |-> text, names |-> <<>>, oob |-> FALSE]
    ELSE IF r.retrieve_value # ""
    THEN LET text == "{\"ok\":true,\"value\":\"" \o r.retrieve_value \o "\"}"
         IN  [n |-> Len(text), text |-> text, names |-> <<>>, oob |-> FALSE]
    ELSE IF Len(r.list_names) > 0
    THEN LET head == "{\"ok\":true,\"secrets\":["
         IN  ListLoop(r.list_names, 0,
                      [n |-> Len(head), text |-> head, names |-> <<>>,
                       oob |-> FALSE], len)
    ELSE IF r.hw_challenge_challenge # ""
    THEN LET text == "{\"ok\":true,\"verified\":"
                     \o (IF r.hw_challenge_verified THEN "true" ELSE "false")
                     \o ",\"model\":\"" \o r.hw_challenge_model
                     \o "\",\"serial\":\"" \o r.hw_challenge_serial \o "\"}"
         IN  [n |-> Len(text), text |-> text, names |-> <<>>, oob |-> FALSE]
    ELSE IF r.hw_sign_signature # ""
    THEN LET text == "{\"ok\":true,\"signature\":\"" \o r.hw_sign_signature \o "\"}"
         IN  [n |-> Len(text), text |-> text, names |-> <<>>, oob |-> FALSE]
    ELSE [n |-> Len("{\"ok\":true}"), text |-> "{\"ok\":true}", names |-> <<>>,
          oob |-> FALSE]

avp_format_resp(r, len) ==
    LET b == FormatBody(r, len)
    IN  [ret |-> IF b.n >= len THEN "AVP_ERR_INTERNAL" ELSE "AVP_OK",
         n |-> b.n, text |-> b.text, names |-> b.names, oob |-> b.oob]

\* what avp_process leaves in json_out for the response now held in resp
Wire == avp_format_resp(resp, AVP_MAX_JSON_LEN)

\* avp_cmd_process: the lines the device can send for an outcome of
\* avp_process.  A return other than AVP_OK sends the fixed line; after a
\* write beyond avp_response the behaviour is undefined, and the build may as
\* well send what the buffer holds.
FallbackLine == "{\"ok\":false,\"error\":\"INTERNAL_ERROR\"}"

avp_cmd_process(w) ==
    IF w.ret = "AVP_OK" THEN {w.text}
    ELSE IF w.oob
         THEN {FallbackLine, Strncpy(w.text, AVP_MAX_JSON_LEN - 1)}
         ELSE {FallbackLine}

\* The calls on the secure element (avp_tropic_store, avp_tropic_retrieve,
\* avp_tropic_erase, ...) a handler makes while it serves a command: none,
\* every such call is still a comment in the handlers.
TropicCalls(cmd) == <<>>

(***************************************************************************)
(* Requests.  The requests a specification sends are given by a record I   *)
(* of inputs: bad (requests that name no known operation), session_ids,    *)
(* names (the name field), values, pins, workspaces, ttls (the ttl and     *)
(* requested_ttl fields), datas, seeds (RNG outputs) and times (clock      *)
(* values).                                                                *)
(***************************************************************************)
\* n bytes from the hardware RNG
Rand(seed, n) == [i \in 1 .. n |-> (seed * 37 + i * 11) % 256]

NoJson ==
    [op |-> <<>>, session_id |-> <<>>, workspace |-> <<>>, name |-> <<>>,
     value |-> <<>>, auth_method |-> <<>>, pin |-> <<>>, key_name |-> <<>>,
     ttl |-> <<>>, requested_ttl |-> <<>>, data |-> <<>>]

Op(op) == [NoJson EXCEPT !.op = <<op>>]

\* the request with each session_id the host may send along
Sid(I, json) == {[json EXCEPT !.session_id = sid] : sid \in I.session_ids}

AuthenticateReqs(I) ==
    {[Op("AUTHENTICATE") EXCEPT !.pin = <<pin>>, !.workspace = ws,
                                !.ttl = tf[1], !.requested_ttl = tf[2]] :
        pin \in I.pins, ws \in I.workspaces, tf \in I.ttls}

NamedReqs(I, op) ==
    UNION {Sid(I, [Op(op) EXCEPT !.name = n]) : n \in I.names}

ValueReqs(I, op) ==
    UNION {Sid(I, [Op(op) EXCEPT !.name = n, !.value = <<v>>]) :
              n \in I.names, v \in I.values}

HwSignReqs(I) == UNION {Sid(I, [Op("HW_SIGN") EXCEPT !.data = d]) : d \in I.datas}

\* every request a specification with the inputs I sends
Requests(I) ==
    I.bad \cup {Op("DISCOVER"), Op("HW_CHALLENGE")} \cup AuthenticateReqs(I)
      \cup ValueReqs(I, "STORE") \cup NamedReqs(I, "RETRIEVE")
      \cup NamedReqs(I, "DELETE") \cup Sid(I, Op("LIST"))
      \cup ValueReqs(I, "ROTATE") \cup HwSignReqs(I) \cup Sid(I, Op("HW_ATTEST"))

NoTtl == <<<<>>, <<>>>>

\* requests that name no operation the engine knows
NoOp == {NoJson, Op("PING")}

\* Sessions and the clock: every ttl request, clock values around the
\* expiry times
SessionInputs ==
    [bad |-> NoOp, session_ids |-> {<<>>}, datas |-> {<<>>},
     names |-> {<<"k1">>}, values |-> {"v1"}, pins |-> {"123456"},
     workspaces |-> {<<>>}, seeds |-> {1},
     ttls |-> {NoTtl, <<<<>>, <<U32(0)>>>>, <<<<>>, <<U32(30)>>>>,
               <<<<>>, <<U32(60)>>>>, <<<<>>, <<U32(4000)>>>>,
               <<<<>>, <<U32Max>>>>, <<<<U32(60)>>, <<>>>>,
               <<<<U32(60)>>, <<U32(4000)>>>>},
     times |-> {U32(0), U32(1), U32(60), U32(300)}]

\* PIN attempts: accepted and rejected PINs
PinInputs ==
    [bad |-> NoOp, session_ids |-> {<<>>}, datas |-> {<<>>},
     names |-> {<<"k1">>}, values |-> {"v1"}, pins |-> {"", "1", "123456"},
     workspaces |-> {<<>>, <<"ws">>}, seeds |-> {1, 2},
     ttls |-> {NoTtl}, times |-> {U32(0), U32(300)}]

\* The secret index: several names (and a request without one) and values
IndexInputs ==
    [bad |-> NoOp, session_ids |-> {<<>>}, datas |-> {<<>>},
     names |-> {<<>>, <<"k1">>, <<"k2">>}, values |-> {"v1", "v2"},
     pins |-> {"123456"}, workspaces |-> {<<>>}, seeds |-> {1},
     ttls |-> {NoTtl}, times |-> {U32(0), U32(1)}]

\* The names of a nearly full index: short ("s1", "s2", ...) or padded to
\* LongLen characters.
Prefill == 31

LongLen == 47

Pad == "--------------------------------------------------------------"

PrefillName(k, long) ==
    LET tag == "s" \o ToString(k)
    IN  IF long THEN tag \o SubSeq(Pad, 1, LongLen - Len(tag)) ELSE tag

\* A nearly full index
FullInputs ==
    [bad |-> NoOp, session_ids |-> {<<>>}, datas |-> {<<>>},
     names |-> {<<"k1">>, <<"k2">>, <<PrefillName(1, TRUE)>>}, values |-> {"v1"},
     pins |-> {"123456"}, workspaces |-> {<<>>}, seeds |-> {1},
     ttls |-> {NoTtl}, times |-> {U32(0), U32(1)}]

\* The encoder at the end of its buffer: a name one character longer than
\* the long names of the nearly full index
EdgeName == PrefillName(0, TRUE) \o "-"

EncodeInputs ==
    [bad |-> NoOp, session_ids |-> {<<>>}, datas |-> {<<>>},
     names |-> {<<PrefillName(1, TRUE)>>, <<EdgeName>>}, values |-> {"v1"},
     pins |-> {"123456"}, workspaces |-> {<<>>}, seeds |-> {1},
     ttls |-> {NoTtl}, times |-> {U32(0), U32(1)}]

\* Escaping: a name whose text ends in a backslash, as the parser reads it
\* from a request that writes a quote inside the name as \" (the parser's
\* copy stops at that quote)
EscapeInputs ==
    [bad |-> NoOp, session_ids |-> {<<>>}, datas |-> {<<>>},
     names |-> {<<"k1">>, <<"a\\">>}, values |-> {"v1"},
     pins |-> {"123456"}, workspaces |-> {<<>>, <<"w\\">>}, seeds |-> {1},
     ttls |-> {NoTtl}, times |-> {U32(0), U32(1)}]

\* The backend: one name, a PIN that is refused and one that is accepted,
\* two clock values within the lifetime of a session
BackendInputs ==
    [bad |-> NoOp, session_ids |-> {<<>>}, datas |-> {<<>>},
     names |-> {<<"k1">>}, values |-> {"v1"}, pins |-> {"1", "123456"},
     workspaces |-> {<<>>}, seeds |-> {1},
     ttls |-> {NoTtl}, times |-> {U32(0), U32(1)}]

\* Parsing: requests without an op member, one of them with a name spelled
\* like the key "op"; session ids (none, a wrong one, the one AUTHENTICATE
\* hands out); a name one character longer than the name field holds; data
\* that is and is not hexadecimal
OverName == SubSeq(Pad \o Pad, 1, AVP_MAX_NAME_LEN)

ParseInputs ==
    [bad |-> NoOp \cup {[NoJson EXCEPT !.name = <<"op">>, !.value = <<"STORE">>]},
     session_ids |-> {<<>>, <<"00000000000000000000000000000000">>,
                      <<generate_session_id(Rand(1, 16))>>},
     datas |-> {<<>>, <<"00ff">>, <<"0z">>, <<"zz">>, <<"abc">>},
     names |-> {<<OverName>>}, values |-> {"v1"},
     pins |-> {"123456"}, workspaces |-> {<<>>}, seeds |-> {1},
     ttls |-> {NoTtl}, times |-> {U32(0), U32(300)}]

\* The parse of every request the specifications send, computed once
Parsed ==
    [json \in Requests(SessionInputs) \cup Requests(PinInputs)
                \cup Requests(IndexInputs) \cup Requests(FullInputs)
                \cup Requests(ParseInputs) \cup Requests(EncodeInputs)
                \cup Requests(EscapeInputs) \cup Requests(BackendInputs) |->
        avp_parse_cmd(json)]

Parse(json) ==
    IF json \in DOMAIN Parsed THEN Parsed[json] ELSE avp_parse_cmd(json)

(***************************************************************************)
(* The API: avp_init, avp_process, avp_session_invalidate, and the clock   *)
(* behind get_time().                                                      *)
(***************************************************************************)
Ctx == [session |-> session, secrets |-> secrets, secret_count |-> secret_count]

ZeroCtx ==
    [session |-> ZeroSession, secrets |-> [i \in Index |-> ZeroMeta],
     secret_count |-> 0]

Dispatch(c, json, t, random) ==
    LET p == Parse(json)
        cmd == p.cmd
        r == ZeroResp
    IN  IF p.ret # "AVP_OK" THEN [ctx |-> c, resp |-> Fail(r, p.ret)]
        ELSE CASE cmd.op = "DISCOVER" -> avp_op_discover(c, r)
               [] cmd.op = "AUTHENTICATE" -> avp_op_authenticate(c, cmd, t, random, r)
               [] cmd.op = "STORE" -> avp_op_store(c, cmd, t, r)
               [] cmd.op = "RETRIEVE" -> avp_op_retrieve(c, cmd, t, r)
               [] cmd.op = "DELETE" -> avp_op_delete(c, cmd, t, r)
               [] cmd.op = "LIST" -> avp_op_list(c, cmd, t, r)
               [] cmd.op = "ROTATE" -> avp_op_rotate(c, cmd, t, r)
               [] cmd.op = "HW_CHALLENGE" -> avp_op_hw_challenge(c, cmd, r)
               [] cmd.op = "HW_SIGN" -> avp_op_hw_sign(c, cmd, t, random, r)
               [] cmd.op = "HW_ATTEST" -> avp_op_hw_attest(c, cmd, t, r)
               [] OTHER -> [ctx |-> c, resp |-> Fail(r, "AVP_ERR_INVALID_OP")]

avp_process(json, random) ==
    LET out == Dispatch(Ctx, json, now, random)
    IN  /\ session' = out.ctx.session
        /\ secrets' = out.ctx.secrets
        /\ secret_count' = out.ctx.secret_count
        /\ resp' = out.resp
        /\ last' = [call |-> "avp_process", json |-> json, t |-> now]
        /\ UNCHANGED <<now, tropic_handle, lt_initialized, ret>>

\* avp_init(ctx, tropic, get_time, rng) on the context c with the handle h;
\* ctx, get_time and rng say whether the argument is given (not NULL)
\* mutant: the count of refused PINs outlives avp_init
avp_init_on_KeepsAttempts(c, h, ctx, tropic, get_time, rng) ==
    IF ~ctx \/ ~get_time \/ ~rng
    THEN [ret |-> "AVP_ERR_INVALID_PARAM", ctx |-> c, tropic_handle |-> h]
    ELSE [ret |-> "AVP_OK",
          ctx |-> [ZeroCtx EXCEPT
                     !.session.pin_attempts = c.session.pin_attempts],
          tropic_handle |-> tropic]

avp_init_on(c, h, ctx, tropic, get_time, rng) ==
    IF ~ctx \/ ~get_time \/ ~rng
    THEN [ret |-> "AVP_ERR_INVALID_PARAM", ctx |-> c, tropic_handle |-> h]
    ELSE [ret |-> "AVP_OK", ctx |-> ZeroCtx, tropic_handle |-> tropic]

AvpInitWith(ctx, tropic, get_time, rng) ==
    LET out == avp_init_on(Ctx, tropic_handle, ctx, tropic, get_time, rng)
    IN  /\ session' = out.ctx.session
        /\ secrets' = out.ctx.secrets
        /\ secret_count' = out.ctx.secret_count
        /\ tropic_handle' = out.tropic_handle
        /\ ret' = out.ret
        /\ last' = [call |-> "avp_init", json |-> NoJson, t |-> now]
        /\ UNCHANGED <<now, resp, lt_initialized>>

\* avp_init as avp_cmd_init calls it: the static context, no handle, the
\* clock and the RNG of the board
avp_init == AvpInitWith(TRUE, "NULL", TRUE, TRUE)

\* avp_init called without a context, a clock or an RNG
avp_init_null ==
    \E ctx, get_time, rng \in BOOLEAN :
        /\ ~ctx \/ ~get_time \/ ~rng
        /\ AvpInitWith(ctx, "NULL", get_time, rng)

Invalidate ==
    /\ session' = avp_session_invalidate(session)
    /\ last' = [call |-> "avp_session_invalidate", json |-> NoJson, t |-> now]
    /\ UNCHANGED <<secrets, secret_count, now, resp,
                   tropic_handle, lt_initialized, ret>>

(***************************************************************************)
(* libtropic integration: the handle.  lt_ok says whether the call into    *)
(* libtropic returns LT_OK.                                                *)
(***************************************************************************)
avp_tropic_init(h, li, lt_ok) ==
    IF li THEN [ret |-> "AVP_OK", tropic_handle |-> h, lt_initialized |-> li]
    ELSE IF ~lt_ok
    THEN [ret |-> "AVP_ERR_HARDWARE", tropic_handle |-> h, lt_initialized |-> li]
    ELSE [ret |-> "AVP_OK", tropic_handle |-> "&lt_handle",
          lt_initialized |-> TRUE]

avp_tropic_deinit(h, li) ==
    IF li THEN [tropic_handle |-> "NULL", lt_initialized |-> FALSE]
    ELSE [tropic_handle |-> h, lt_initialized |-> li]

\* the return value of avp_tropic_store for len bytes into slot
avp_tropic_store(h, li, slot, len, lt_ok) ==
    IF ~li \/ h = "NULL" THEN "AVP_ERR_HARDWARE"
    ELSE IF slot < SLOT_SECRETS_START
            \/ slot > SLOT_SECRETS_START + AVP_MAX_SECRETS - 1
    THEN "AVP_ERR_INVALID_PARAM"
    ELSE IF len > 256 THEN "AVP_ERR_CAPACITY"
    ELSE IF ~lt_ok THEN "AVP_ERR_HARDWARE"
    ELSE "AVP_OK"

TropicInit ==
    \E lt_ok \in BOOLEAN :
        LET out == avp_tropic_init(tropic_handle, lt_initialized, lt_ok)
        IN  /\ tropic_handle' = out.tropic_handle
            /\ lt_initialized' = out.lt_initialized
            /\ ret' = out.ret
            /\ last' = [call |-> "avp_tropic_init", json |-> NoJson, t |-> now]
            /\ UNCHANGED <<session, secrets, secret_count, now, resp>>

TropicDeinit ==
    LET out == avp_tropic_deinit(tropic_handle, lt_initialized)
    IN  /\ tropic_handle' = out.tropic_handle
        /\ lt_initialized' = out.lt_initialized
        /\ last' = [call |-> "avp_tropic_deinit", json |-> NoJson, t |-> now]
        /\ UNCHANGED <<session, secrets, secret_count, now, resp, ret>>

(***************************************************************************)
(* Actions: the clock, and one action for each kind of request.            *)
(***************************************************************************)
\* a clock that only moves forward
Tick(I) ==
    /\ \E t \in I.times : U32Lt(now, t) /\ now' = t
    /\ UNCHANGED <<session, secrets, secret_count, last, resp,
                   tropic_handle, lt_initialized, ret>>

BadRequest(I) == \E json \in I.bad : avp_process(json, <<>>)

Discover == avp_process(Op("DISCOVER"), <<>>)

Authenticate(I) ==
    \E json \in AuthenticateReqs(I), seed \in I.seeds :
        avp_process(json, Rand(seed, 16))

Store(I) == \E json \in ValueReqs(I, "STORE") : avp_process(json, <<>>)

Retrieve(I) == \E json \in NamedReqs(I, "RETRIEVE") : avp_process(json, <<>>)

Delete(I) == \E json \in NamedReqs(I, "DELETE") : avp_process(json, <<>>)

List(I) == \E json \in Sid(I, Op("LIST")) : avp_process(json, <<>>)

Rotate(I) == \E json \in ValueReqs(I, "ROTATE") : avp_process(json, <<>>)

HwChallenge == avp_process(Op("HW_CHALLENGE"), <<>>)

HwSign(I) ==
    \E json \in HwSignReqs(I), seed \in I.seeds :
        avp_process(json, Rand(seed, 64))

HwAttest(I) == \E json \in Sid(I, Op("HW_ATTEST")) : avp_process(json, <<>>)

NextOn(I) ==
    \/ Tick(I)
    \/ avp_init
    \/ Invalidate
    \/ BadRequest(I)
    \/ Discover
    \/ Authenticate(I)
    \/ Store(I)
    \/ Retrieve(I)
    \/ Delete(I)
    \/ List(I)
    \/ Rotate(I)
    \/ HwChallenge
    \/ HwSign(I)
    \/ HwAttest(I)

\* the state avp_cmd_init has after its call of avp_init on the static
\* context, the secure element not yet attached
Init ==
    /\ session = ZeroCtx.session
    /\ secrets = ZeroCtx.secrets
    /\ secret_count = ZeroCtx.secret_count
    /\ now = U32(0)
    /\ last = [call |-> "avp_init", json |-> NoJson, t |-> U32(0)]
    /\ resp = ZeroResp
    /\ tropic_handle = "NULL"
    /\ lt_initialized = FALSE
    /\ ret = "AVP_OK"

Spec == Init /\ [][NextOn(SessionInputs)]_vars

SpecPin == Init /\ [][NextOn(PinInputs)]_vars

SpecIndex == Init /\ [][NextOn(IndexInputs)]_vars

\* A nearly full index: the device has served an AUTHENTICATE and Prefill
\* STORE requests at time 0.
PrefillStore(k, long) ==
    [Op("STORE") EXCEPT !.name = <<PrefillName(k, long)>>, !.value = <<"v1">>]

\* the context after the AUTHENTICATE and the first k STORE requests
Prefilled(k, long) ==
    [session |-> NewSession(ZeroSession, avp_parse_cmd(Op("AUTHENTICATE")).cmd,
                            U32(0), Rand(1, 16)),
     secrets |-> [i \in Index |->
                    IF i < k
                    THEN [in_use |-> TRUE, name |-> PrefillName(i + 1, long),
                          slot_index |-> SLOT_SECRETS_START + i,
                          created_at |-> U32(0), updated_at |-> U32(0)]
                    ELSE ZeroMeta],
     secret_count |-> k]

\* each of those requests leads from one of these contexts to the next
PrefillReached(long) ==
    /\ Dispatch(ZeroCtx, [Op("AUTHENTICATE") EXCEPT !.pin = <<"123456">>],
                U32(0), Rand(1, 16)).ctx = Prefilled(0, long)
    /\ \A k \in 1 .. Prefill :
          Dispatch(Prefilled(k - 1, long), PrefillStore(k, long),
                   U32(0), <<>>).ctx = Prefilled(k, long)

InitFull ==
    \E long \in BOOLEAN :
        /\ PrefillReached(long)
        /\ session = Prefilled(Prefill, long).session
        /\ secrets = Prefilled(Prefill, long).secrets
        /\ secret_count = Prefill
        /\ now = U32(0)
        /\ last = [call |-> "avp_process", json |-> PrefillStore(Prefill, long),
                   t |-> U32(0)]
        /\ resp = [ZeroResp EXCEPT !.ok = TRUE]
        /\ tropic_handle = "NULL"
        /\ lt_initialized = FALSE
        /\ ret = "AVP_OK"

SpecFull == InitFull /\ [][NextOn(FullInputs)]_vars

SpecParse == Init /\ [][NextOn(ParseInputs)]_vars

SpecEncode == InitFull /\ [][NextOn(EncodeInputs)]_vars

SpecEscape == Init /\ [][NextOn(EscapeInputs)]_vars

\* the protocol engine together with the calls that attach and detach the
\* secure element and with avp_init calls that lack an argument
NextBackend ==
    \/ NextOn(BackendInputs)
    \/ avp_init_null
    \/ TropicInit
    \/ TropicDeinit

SpecBackend == Init /\ [][NextBackend]_vars

(***************************************************************************)
(* What the last call was, and what a step is.  A request is served at one *)
(* clock value, so a step that leaves the clock alone and records a call   *)
(* in last' is that call.                                                  *)
(***************************************************************************)
LastCmd == Parse(last.json).cmd

LastIs(op) == last.call = "avp_process" /\ LastCmd.op = op

SessionRequest == last.call = "avp_process" /\ LastCmd.op \in SessionOps

Failed(r, err) == ~r.ok /\ r.error_code = err

StepIs(call) == now' = now /\ last'.call = call

StepOp(op) == StepIs("avp_process") /\ Parse(last'.json).cmd.op = op

\* created_at <= t < created_at + ttl, the sum taken without wrapping
InLifetime(s, t) ==
    /\ U32Le(s.created_at, t)
    /\ WideLt(Wide(t), WideAdd(s.created_at, s.ttl))

(***************************************************************************)
(* Sessions                                                                *)
(***************************************************************************)
\* C1: a request for STORE, RETRIEVE, DELETE, LIST, ROTATE, HW_SIGN or
\* HW_ATTEST either fails with NOT_AUTHENTICATED or was served while the
\* session was active and not yet past its lifetime; it never succeeds
\* without a valid session.
C1_SessionRequired ==
    SessionRequest =>
        \/ Failed(resp, "AVP_ERR_NOT_AUTHENTICATED")
        \/ /\ session.active
           /\ WideLt(Wide(last.t), WideAdd(session.created_at, session.ttl))

\* a session request refused because the session it met had run out
C1_Witness ==
    /\ SessionRequest
    /\ Failed(resp, "AVP_ERR_NOT_AUTHENTICATED")
    /\ session.session_id # ""
    /\ ~session.active
    /\ ~WideLt(Wide(last.t), WideAdd(session.created_at, session.ttl))

\* C2: whenever a session operation succeeds at time t,
\* created_at <= t < created_at + ttl in unbounded arithmetic.
C2_SuccessInLifetime ==
    (SessionRequest /\ resp.ok) => InLifetime(session, last.t)

\* a session operation that succeeded some time after the session began
C2_Witness ==
    /\ SessionRequest
    /\ resp.ok
    /\ U32Lt(session.created_at, last.t)
    /\ U32Lt(U32(AVP_DEFAULT_TTL), session.ttl)

(***************************************************************************)
(* PIN attempts                                                            *)
(***************************************************************************)
\* C3: once pin_attempts has reached 5 every AUTHENTICATE is answered
\* PIN_LOCKED, creates no session and leaves pin_attempts at 5, and no
\* request and no invalidation changes pin_attempts: only avp_init leaves
\* the locked state.
C3_LockedStaysLocked ==
    [][(session.pin_attempts >= AVP_MAX_PIN_ATTEMPTS /\ ~StepIs("avp_init")) =>
          /\ session'.pin_attempts = AVP_MAX_PIN_ATTEMPTS
          /\ StepOp("AUTHENTICATE") =>
                /\ Failed(resp', "AVP_ERR_PIN_LOCKED")
                /\ session' = session]_vars

\* a well-formed PIN turned away by the lockout
C3_Witness ==
    /\ session.pin_attempts = AVP_MAX_PIN_ATTEMPTS
    /\ LastIs("AUTHENTICATE")
    /\ Len(LastCmd.pin) >= MinPinLen
    /\ Failed(resp, "AVP_ERR_PIN_LOCKED")

\* C4: pin_attempts stays in 0..5; an AUTHENTICATE answered PIN_INVALID adds
\* one to it, a rejected PIN below the threshold is answered PIN_INVALID, a
\* successful AUTHENTICATE and avp_init set it to 0, and nothing else
\* changes it: it counts the PIN_INVALID responses since the last of those.
C4_PinAttemptsCount ==
    /\ [](session.pin_attempts \in 0 .. AVP_MAX_PIN_ATTEMPTS)
    /\ [][LET a == session.pin_attempts
              b == session'.pin_attempts
              auth == StepOp("AUTHENTICATE")
              pin == Parse(last'.json).cmd.pin
          IN  /\ (auth /\ a < AVP_MAX_PIN_ATTEMPTS /\ Len(pin) < MinPinLen)
                    => Failed(resp', "AVP_ERR_PIN_INVALID")
              /\ IF auth /\ Failed(resp', "AVP_ERR_PIN_INVALID") THEN b = a + 1
                 ELSE IF auth /\ resp'.ok THEN b = 0
                 ELSE IF StepIs("avp_init") THEN b = 0
                 ELSE b = a]_vars

\* a rejected PIN counted after an accepted one had reset the count
C4_Witness ==
    /\ session.pin_attempts = 1
    /\ session.active
    /\ LastIs("AUTHENTICATE")
    /\ Failed(resp, "AVP_ERR_PIN_INVALID")

(***************************************************************************)
(* Expiry                                                                  *)
(***************************************************************************)
\* C5: a session request that meets an active session past its lifetime is
\* answered SESSION_EXPIRED, and one that meets no active session is
\* answered NOT_AUTHENTICATED.
C5_ExpiredIsReported ==
    [][(StepIs("avp_process")
          /\ Parse(last'.json).cmd.op \in SessionOps) =>
          /\ (session.active /\ ~InLifetime(session, now))
                => Failed(resp', "AVP_ERR_SESSION_EXPIRED")
          /\ ~session.active => Failed(resp', "AVP_ERR_NOT_AUTHENTICATED")]_vars

\* C6: after a successful AUTHENTICATE the stored ttl is the expires_in of
\* the response, lies in 60..3600, and is the requested value clamped to
\* that range, or 300 when none was requested.
C6_TtlClamped ==
    (LastIs("AUTHENTICATE") /\ resp.ok) =>
        LET req == LastCmd.ttl
            want == IF req = U32(0) THEN U32(AVP_DEFAULT_TTL)
                    ELSE IF U32Lt(req, U32(60)) THEN U32(60)
                    ELSE IF U32Lt(U32(3600), req) THEN U32(3600)
                    ELSE req
        IN  /\ session.ttl = resp.auth_expires_in
            /\ U32Le(U32(60), session.ttl)
            /\ U32Le(session.ttl, U32(3600))
            /\ session.ttl = want

\* C7: with the session of the last successful AUTHENTICATE (at c, with
\* expires_in e) still in place, a session request at t passes the session
\* check exactly when c <= t < c + e, the sum taken without wrapping.
C7_LifetimeIsExpiresIn ==
    (SessionRequest /\ session.session_id # "") =>
        (~Failed(resp, "AVP_ERR_NOT_AUTHENTICATED")
            <=> InLifetime(session, last.t))

(***************************************************************************)
(* The secret index                                                        *)
(***************************************************************************)
\* C8: a successful STORE of value v under name n followed at once by a
\* RETRIEVE of n in a valid session returns ok with the value v.
C8_RetrieveReturnsStored ==
    [][(LastIs("STORE") /\ resp.ok /\ StepOp("RETRIEVE")
          /\ Parse(last'.json).cmd.name = LastCmd.name
          /\ ~Failed(resp', "AVP_ERR_NOT_AUTHENTICATED")) =>
          /\ resp'.ok
          /\ resp'.retrieve_value = LastCmd.value]_vars

\* C9: at most 32 entries are in_use, and a LIST that is answered returns as
\* many names as there are entries in_use.
C9_ListCountsEntries ==
    /\ Cardinality(InUse(secrets)) <= AVP_MAX_SECRETS
    /\ (LastIs("LIST") /\ resp.ok /\ Wire.ret = "AVP_OK") =>
          Len(Wire.names) = Cardinality(InUse(secrets))

\* C10: no two in_use entries carry the same name.
C10_NamesUnique ==
    \A i, j \in InUse(secrets) : secrets[i].name = secrets[j].name => i = j

\* a name stored again while another name is in the index: its entry was
\* updated in place
C10_Witness ==
    /\ Cardinality(InUse(secrets)) = 2
    /\ LastIs("STORE")
    /\ resp.ok
    /\ \E i \in InUse(secrets) :
          /\ secrets[i].name = LastCmd.name
          /\ U32Lt(secrets[i].created_at, secrets[i].updated_at)

(***************************************************************************)
(* Slots and capacity                                                      *)
(***************************************************************************)
\* the session check would pass for a request served now
SessionLive == avp_session_valid(session, now).valid

Names(tbl) == {tbl[i].name : i \in InUse(tbl)}

\* C11: every in_use entry has a slot index in 96..127, no two in_use
\* entries share a slot index, and a name that is in the index before and
\* after a step keeps its slot index.
C11_SlotsStable ==
    /\ [](/\ \A i \in InUse(secrets) :
                /\ secrets[i].slot_index >= SLOT_SECRETS_START
                /\ secrets[i].slot_index < SLOT_SECRETS_START + AVP_MAX_SECRETS
          /\ Cardinality({secrets[i].slot_index : i \in InUse(secrets)})
                = Cardinality(InUse(secrets)))
    /\ [][secrets' # secrets =>
            \A i \in InUse(secrets), j \in InUse(secrets') :
                secrets[i].name = secrets'[j].name
                    => secrets[i].slot_index = secrets'[j].slot_index]_vars

\* a full index, the last slot of the range included, one of whose entries
\* has been stored again since it was created
C11_Witness ==
    /\ Cardinality(InUse(secrets)) = AVP_MAX_SECRETS
    /\ \E i \in InUse(secrets) :
          /\ U32Lt(secrets[i].created_at, secrets[i].updated_at)
          /\ secrets[i].slot_index = SLOT_SECRETS_START + i

\* C12: with a valid session and 32 in_use entries, STORE or ROTATE of a
\* name not in the index fails with CAPACITY_EXCEEDED and leaves every entry
\* and the count unchanged, and STORE or ROTATE of a name in the index
\* succeeds.
C12_CapacityExceeded ==
    [][(/\ Cardinality(InUse(secrets)) = AVP_MAX_SECRETS
        /\ SessionLive
        /\ StepOp("STORE") \/ StepOp("ROTATE")) =>
          IF Parse(last'.json).cmd.name \in Names(secrets)
          THEN resp'.ok
          ELSE /\ ~resp'.ok
               /\ avp_error_str(resp'.error_code) = "CAPACITY_EXCEEDED"
               /\ secrets' = secrets
               /\ secret_count' = secret_count]_vars

\* a STORE of a new name turned away by a full index
C12_Witness ==
    /\ Cardinality(InUse(secrets)) = AVP_MAX_SECRETS
    /\ secret_count = AVP_MAX_SECRETS
    /\ LastIs("STORE")
    /\ LastCmd.name \notin Names(secrets)
    /\ Failed(resp, "AVP_ERR_CAPACITY")

(***************************************************************************)
(* DELETE, and requests that fail                                          *)
(***************************************************************************)
\* C13: a successful DELETE of n takes one entry out of the index and one
\* off the count, and with the session still valid a DELETE or a RETRIEVE
\* of n that follows it is answered SECRET_NOT_FOUND and changes neither.
C13_DeleteOnce ==
    [][/\ (StepOp("DELETE") /\ resp'.ok) =>
            /\ secret_count' = secret_count - 1
            /\ Cardinality(InUse(secrets')) = Cardinality(InUse(secrets)) - 1
            /\ Parse(last'.json).cmd.name \notin Names(secrets')
       /\ (/\ LastIs("DELETE") /\ resp.ok /\ SessionLive
           /\ StepOp("DELETE") \/ StepOp("RETRIEVE")
           /\ Parse(last'.json).cmd.name = LastCmd.name) =>
            /\ ~resp'.ok
            /\ avp_error_str(resp'.error_code) = "SECRET_NOT_FOUND"
            /\ secrets' = secrets
            /\ secret_count' = secret_count]_vars

\* a DELETE of a name that is no longer there, another name still stored
C13_Witness ==
    /\ LastIs("DELETE")
    /\ LastCmd.name = "k1"
    /\ Failed(resp, "AVP_ERR_SECRET_NOT_FOUND")
    /\ session.active
    /\ secret_count = 1
    /\ Names(secrets) = {"k2"}

\* C14: a request answered ok:false leaves the secret index, the count and
\* the session record as they were, pin_attempts aside; a session request
\* refused because the session has expired is one of them.
C14_FailureAtomic ==
    [][(StepIs("avp_process") /\ ~resp'.ok) =>
          /\ secrets' = secrets
          /\ secret_count' = secret_count
          /\ [session' EXCEPT !.pin_attempts = session.pin_attempts] = session]_vars

(***************************************************************************)
(* Requests the decoder should refuse                                      *)
(***************************************************************************)
SameContext ==
    /\ session' = session
    /\ secrets' = secrets
    /\ secret_count' = secret_count

\* C15: a request with no op member is answered PARSE_ERROR and a request
\* whose op is none of the ten opcodes is answered INVALID_OPERATION; either
\* way the session record, pin_attempts and the secret index stay as they
\* were.
C15_NoOpIsParseError ==
    [][StepIs("avp_process") =>
          LET op == last'.json.op
          IN  /\ op = <<>> =>
                    /\ ~resp'.ok
                    /\ avp_error_str(resp'.error_code) = "PARSE_ERROR"
                    /\ SameContext
              /\ (op # <<>> /\ op[1] \notin KnownOps) =>
                    /\ ~resp'.ok
                    /\ avp_error_str(resp'.error_code) = "INVALID_OPERATION"
                    /\ SameContext]_vars

\* the string of a member, "" when the member is absent
Str(json, key) == IF json[key] = <<>> THEN "" ELSE json[key][1]

IsHex(str) == \A i \in 1 .. Len(str) : HexValue(SubSeq(str, i, i)) >= 0

\* a string member over its length limit, or data that is not an even
\* number of hexadecimal digits decoding to at most 256 bytes
Oversize(json) ==
    \/ Len(Str(json, "name")) > 63
    \/ Len(Str(json, "workspace")) > 63
    \/ Len(Str(json, "key_name")) > 63
    \/ Len(Str(json, "value")) > 511
    \/ Len(Str(json, "session_id")) > 32
    \/ Len(Str(json, "data")) % 2 # 0
    \/ ~IsHex(Str(json, "data"))
    \/ Len(Str(json, "data")) > 512

\* C16: a request with a known op whose data is malformed hex or one of
\* whose string members is over its length limit is answered
\* INVALID_PARAMETER, and no handler runs.
C16_OversizeIsRefused ==
    [][(/\ StepIs("avp_process")
        /\ last'.json.op # <<>>
        /\ last'.json.op[1] \in KnownOps
        /\ Oversize(last'.json)) =>
          /\ ~resp'.ok
          /\ avp_error_str(resp'.error_code) = "INVALID_PARAMETER"
          /\ SameContext]_vars

(***************************************************************************)
(* What a response and the context do not depend on                        *)
(***************************************************************************)
\* C17: in every state, requests that differ only in their session_id (a
\* wrong id, the id of the current session, or none) get the same response
\* and leave the same context.
C17_SessionIdIgnored ==
    \A json \in {j \in Requests(ParseInputs) : j.session_id = <<>>} :
        \A sid \in ParseInputs.session_ids \cup {<<session.session_id>>} :
            Dispatch(Ctx, [json EXCEPT !.session_id = sid], now, Rand(1, 16))
                = Dispatch(Ctx, json, now, Rand(1, 16))

\* a session request that carried an id other than the session's and
\* succeeded
C17_Witness ==
    /\ SessionRequest
    /\ resp.ok
    /\ Len(LastCmd.session_id) = 32
    /\ LastCmd.session_id # session.session_id

C19_DeleteErasesSlot ==
    [][(StepOp("DELETE") /\ resp'.ok) =>
          LET cmd == Parse(last'.json).cmd
              calls == TropicCalls(cmd)
              idx == find_secret_by_name(secrets, cmd.name)
          IN  \E k \in 1 .. Len(calls) :
                  calls[k] = <<"avp_tropic_erase", secrets[idx].slot_index>>]_vars

\* when the entry that carries the name was created
CreatedAt(name) == secrets[find_secret_by_name(secrets, name)].created_at

\* C20: LIST returns the in_use names in the order in which their entries
\* were created, and a LIST that follows a LIST returns the same sequence.
C20_ListInCreationOrder ==
    /\ []((LastIs("LIST") /\ resp.ok) =>
            \A i, j \in 1 .. Len(resp.list_names) :
                i < j => U32Le(CreatedAt(resp.list_names[i]),
                               CreatedAt(resp.list_names[j])))
    /\ [][(LastIs("LIST") /\ resp.ok /\ StepOp("LIST") /\ resp'.ok) =>
            resp'.list_names = resp.list_names]_vars

(***************************************************************************)
(* Operations                                                              *)
(***************************************************************************)
\* C21: in every state, a ROTATE request gets the response and leaves the
\* context that the STORE request with the same fields gets and leaves; a
\* ROTATE of a name that is not in the index creates the entry.
C21_RotateIsStore ==
    \A json \in ValueReqs(IndexInputs, "STORE") :
        LET st == Dispatch(Ctx, json, now, <<>>)
            ro == Dispatch(Ctx, [json EXCEPT !.op = <<"ROTATE">>], now, <<>>)
        IN  /\ ro = st
            /\ avp_format_resp(ro.resp, AVP_MAX_JSON_LEN)
                  = avp_format_resp(st.resp, AVP_MAX_JSON_LEN)

\* a ROTATE was answered with success and its entry, the only one in the
\* index, was created at the time of the request
C21_Witness ==
    /\ LastIs("ROTATE")
    /\ resp.ok
    /\ secret_count = 1
    /\ \E i \in InUse(secrets) :
          /\ secrets[i].name = LastCmd.name
          /\ secrets[i].created_at = last.t
          /\ secrets[i].updated_at = last.t

\* C22: DISCOVER and HW_CHALLENGE succeed in every state and leave the
\* session (its active flag and pin_attempts included) and the index as they
\* were; the DISCOVER response is the same text in every state: version
\* 0.1.0, max_secrets 32, max_secret_size 256, hw_sign and hw_attest true.
C22_NoSessionOpsFrame ==
    [][(StepOp("DISCOVER") \/ StepOp("HW_CHALLENGE")) =>
          /\ resp'.ok
          /\ session' = session
          /\ secrets' = secrets
          /\ secret_count' = secret_count
          /\ StepOp("DISCOVER") =>
                /\ avp_format_resp(resp', AVP_MAX_JSON_LEN).ret = "AVP_OK"
                /\ avp_format_resp(resp', AVP_MAX_JSON_LEN).text =
                      "{\"ok\":true,\"version\":\"0.1.0\""
                      \o ",\"backend_type\":\"hardware\""
                      \o ",\"manufacturer\":\"AVP Protocol\""
                      \o ",\"model\":\"NexusClaw\""
                      \o ",\"serial\":\"NC00000001\""
                      \o ",\"capabilities\":{\"hw_sign\":true,\"hw_attest\":true"
                      \o ",\"max_secrets\":32,\"max_secret_size\":256}}"]_vars

\* DISCOVER was answered while the session was past its lifetime and the PIN
\* had been refused: the active flag and the count are still there
C22_Witness ==
    /\ LastIs("DISCOVER")
    /\ resp.ok
    /\ session.active
    /\ ~SessionLive
    /\ session.pin_attempts > 0

\* the text holds sub
Contains(text, sub) ==
    \E i \in 1 .. Len(text) - Len(sub) + 1 :
        SubSeq(text, i, i + Len(sub) - 1) = sub

\* C23: every response to HW_CHALLENGE is a success object that carries
\* the members verified (true), model and serial.
C23_ChallengeCarriesFields ==
    LastIs("HW_CHALLENGE") =>
        /\ Wire.ret = "AVP_OK"
        /\ Contains(Wire.text, "\"ok\":true")
        /\ Contains(Wire.text, "\"verified\":true")
        /\ Contains(Wire.text, "\"model\":\"")
        /\ Contains(Wire.text, "\"serial\":\"")

\* C24: every successful response to HW_ATTEST carries the member
\* attestation next to ok:true.
C24_AttestCarriesAttestation ==
    (LastIs("HW_ATTEST") /\ resp.ok) =>
        /\ Wire.ret = "AVP_OK"
        /\ Contains(Wire.text, "\"ok\":true")
        /\ Contains(Wire.text, "\"attestation\":\"")

\* C25: every successful response to LIST carries the member secrets, an
\* array of exactly the names of the in_use entries, empty when the index
\* is empty.
C25_ListCarriesSecrets ==
    (LastIs("LIST") /\ resp.ok) =>
        /\ Wire.ret = "AVP_OK"
        /\ Contains(Wire.text, "\"secrets\":[")
        /\ {Wire.names[k] : k \in 1 .. Len(Wire.names)} = Names(secrets)
        /\ Len(Wire.names) = Cardinality(InUse(secrets))

(***************************************************************************)
(* The encoder and the line sent to the host                               *)
(***************************************************************************)
\* the response in full: what the encoder writes when there is room for all
\* of it
FullBody == FormatBody(resp, 4 * AVP_MAX_JSON_LEN)

\* C26: the encoder never reports success for an incomplete response: when
\* the response in full does not fit the buffer it returns INTERNAL_ERROR,
\* it makes no write beyond the buffer, and when it returns AVP_OK the text
\* is the response in full, no entry left out.
C26_EncoderNeverTruncates ==
    last.call = "avp_process" =>
        /\ ~Wire.oob
        /\ FullBody.n >= AVP_MAX_JSON_LEN => Wire.ret = "AVP_ERR_INTERNAL"
        /\ Wire.ret = "AVP_OK" => Wire.text = FullBody.text

\* C27: when the encoding of the response fails, the line sent to the host
\* is the failure object with error INTERNAL_ERROR and message
\* INTERNAL_ERROR, and nothing of the response encoded so far.
C27_EncodeFailureIsCanonical ==
    (last.call = "avp_process" /\ Wire.ret # "AVP_OK") =>
        \A line \in avp_cmd_process(Wire) :
            line = "{\"ok\":false,\"error\":\"INTERNAL_ERROR\""
                   \o ",\"message\":\"INTERNAL_ERROR\"}"

\* the twelve error codes of the wire
WireCodes ==
    {"PARSE_ERROR", "INVALID_OPERATION", "INVALID_PARAMETER",
     "NOT_AUTHENTICATED", "SESSION_EXPIRED", "SECRET_NOT_FOUND",
     "CAPACITY_EXCEEDED", "HARDWARE_ERROR", "CRYPTO_ERROR", "PIN_INVALID",
     "PIN_LOCKED", "INTERNAL_ERROR"}

\* the failure object with this code and this message
FailureObject(code, msg) ==
    "{\"ok\":false,\"error\":\"" \o code \o "\",\"message\":\"" \o msg \o "\"}"

\* C28: every request handed to avp_cmd_process is answered by one response
\* object, and every failure response has ok:false, an error code that is
\* one of the twelve codes of the wire and a message that is not empty.
C28_FailureShape ==
    last.call = "avp_process" =>
        \A line \in avp_cmd_process(Wire) :
            /\ SubSeq(line, 1, 6) = "{\"ok\":"
            /\ (~resp.ok \/ Wire.ret # "AVP_OK") =>
                  \E code \in WireCodes :
                      \E msg \in {code, resp.error_msg} \ {""} :
                          line = FailureObject(code, msg)

(***************************************************************************)
(* Names                                                                   *)
(***************************************************************************)
\* C29: every in_use entry has a name of 1 to 63 characters, and a STORE or
\* ROTATE request whose name is absent or empty is refused (with
\* INVALID_PARAMETER once the session is accepted).
C29_NamesNotEmpty ==
    /\ \A i \in InUse(secrets) :
          Len(secrets[i].name) \in 1 .. (AVP_MAX_NAME_LEN - 1)
    /\ ((LastIs("STORE") \/ LastIs("ROTATE")) /\ LastCmd.name = "") =>
          /\ ~resp.ok
          /\ resp.error_code \in {"AVP_ERR_INVALID_PARAM",
                                  "AVP_ERR_NOT_AUTHENTICATED"}

\* the number of backslashes that stand right before character i
BackslashRun(text, i) ==
    Cardinality({k \in 1 .. (i - 1) :
                    \A j \in (i - k) .. (i - 1) : SubSeq(text, j, j) = "\\"})

\* the quotes of the text that open or close a string: those not escaped
StringQuotes(text) ==
    {i \in 1 .. Len(text) :
        SubSeq(text, i, i) = "\"" /\ BackslashRun(text, i) % 2 = 0}

\* every string of the text is closed, and the text is one line
StringsClosed(text) ==
    /\ Cardinality(StringQuotes(text)) % 2 = 0
    /\ \A i \in 1 .. Len(text) : SubSeq(text, i, i) \notin {"\n", "\r"}

\* C30: every line sent is one well-formed JSON object on a single line:
\* it opens and closes as an object and each string in it is closed, so a
\* name or workspace that holds a backslash cannot break out of its string.
C30_ResponseWellFormed ==
    last.call = "avp_process" =>
        \A line \in avp_cmd_process(Wire) :
            /\ SubSeq(line, 1, 1) = "{"
            /\ SubSeq(line, Len(line), Len(line)) = "}"
            /\ StringsClosed(line)

(***************************************************************************)
(* AUTHENTICATE and the session record                                     *)
(***************************************************************************)
\* the text is n lowercase hexadecimal digits
IsHexId(text, n) ==
    /\ Len(text) = n
    /\ \A i \in 1 .. n : \E d \in 1 .. 16 : SubSeq(text, i, i) = HexDigits[d]

\* C31: a successful AUTHENTICATE at time c writes over the session record:
\* active, an id of 32 lowercase hexadecimal digits drawn from the RNG,
\* created_at = c, the workspace of the request or "default" without one,
\* ttl 300 when the request gives none; the response carries that id, that
\* workspace and expires_in = ttl, and the session is valid from then on
\* whatever the expiry of the session before.
C31_AuthenticateOverwrites ==
    [][(StepOp("AUTHENTICATE") /\ resp'.ok) =>
          LET json == last'.json
          IN  /\ session'.active
              /\ IsHexId(session'.session_id, 32)
              /\ \E seed \in PinInputs.seeds :
                    session'.session_id = hex_encode(Rand(seed, 16))
              /\ session'.created_at = now
              /\ session'.workspace =
                    (IF json.workspace = <<>> THEN "default" ELSE json.workspace[1])
              /\ (json.ttl = <<>> /\ json.requested_ttl = <<>>) =>
                    session'.ttl = U32(AVP_DEFAULT_TTL)
              /\ avp_session_valid(session', now).valid
              /\ resp'.auth_session_id = session'.session_id
              /\ resp'.auth_workspace = session'.workspace
              /\ resp'.auth_expires_in = session'.ttl
              /\ avp_format_resp(resp', AVP_MAX_JSON_LEN).text =
                    "{\"ok\":true,\"session_id\":\"" \o session'.session_id
                    \o "\",\"expires_in\":" \o U32Dec(session'.ttl)
                    \o ",\"workspace\":\"" \o session'.workspace \o "\"}"]_vars

\* a second session opened, with a workspace, once the first (in which an
\* entry was stored at time 0) had run out
C31_Witness ==
    /\ LastIs("AUTHENTICATE")
    /\ resp.ok
    /\ \E i \in InUse(secrets) : secrets[i].created_at = U32(0)
    /\ session.created_at = U32(300)
    /\ session.workspace = "ws"
    /\ session.session_id = hex_encode(Rand(2, 16))

\* C32: an AUTHENTICATE that fails does so with PIN_INVALID or PIN_LOCKED and
\* changes nothing but pin_attempts: the session keeps its active flag, id,
\* workspace, created_at and ttl, the index is as it was, and a request that
\* needs a session, served within the lifetime of the session, is not
\* refused for lack of one, the count of refused PINs at the threshold or
\* not.
C32_RefusedPinKeepsSession ==
    /\ [][(StepOp("AUTHENTICATE") /\ ~resp'.ok) =>
             /\ resp'.error_code \in {"AVP_ERR_PIN_INVALID", "AVP_ERR_PIN_LOCKED"}
             /\ session' = [session EXCEPT !.pin_attempts = session'.pin_attempts]
             /\ session'.pin_attempts \in {session.pin_attempts,
                                           session.pin_attempts + 1}
             /\ secrets' = secrets
             /\ secret_count' = secret_count
             /\ avp_session_valid(session', now).valid
                   = avp_session_valid(session, now).valid]_vars
    /\ []((SessionRequest /\ session.active /\ InLifetime(session, last.t)) =>
             ~Failed(resp, "AVP_ERR_NOT_AUTHENTICATED"))

\* a STORE answered with success in a session that is still valid, after the
\* count of refused PINs reached the threshold
C32_Witness ==
    /\ LastIs("STORE")
    /\ resp.ok
    /\ PinLocked(session)
    /\ SessionLive

C34_LowestFreeSlot ==
    [][StepIs("avp_process") =>
          LET cmd == Parse(last'.json).cmd
              free == Index \ InUse(secrets)
          IN  /\ (/\ cmd.op \in {"STORE", "ROTATE"}
                  /\ resp'.ok
                  /\ cmd.name \notin Names(secrets)) =>
                    /\ free # {}
                    /\ InUse(secrets') = InUse(secrets) \cup {Least(free)}
                    /\ secrets'[Least(free)].name = cmd.name
                    /\ secrets'[Least(free)].slot_index
                          = SLOT_SECRETS_START + Least(free)
              /\ InUse(secrets) \ InUse(secrets') # {} =>
                    /\ cmd.op = "DELETE"
                    /\ resp'.ok
                    /\ Cardinality(InUse(secrets) \ InUse(secrets')) = 1]_vars

\* the first entry of the table is newer than the second: it was freed by a
\* DELETE and taken again by the STORE just answered, with entries free
\* above it
C34_Witness ==
    /\ LastIs("STORE")
    /\ resp.ok
    /\ secrets[0].in_use
    /\ secrets[0].name = LastCmd.name
    /\ secrets[0].slot_index = SLOT_SECRETS_START
    /\ secrets[0].created_at = U32(1)
    /\ secrets[1].in_use
    /\ secrets[1].created_at = U32(0)
    /\ ~secrets[2].in_use

\* C35: a STORE or ROTATE answered with success for a name in the index sets
\* updated_at of that entry to the time of the request and leaves its
\* created_at, its slot, every other entry and the count as they were; for a
\* name not in the index it fills one free entry with created_at and
\* updated_at at the time of the request and raises the count by 1.
C35_StoreTimestamps ==
    [][((StepOp("STORE") \/ StepOp("ROTATE")) /\ resp'.ok) =>
          LET cmd == Parse(last'.json).cmd
              held == {i \in InUse(secrets) : secrets[i].name = cmd.name}
          IN  IF held # {}
              THEN /\ \E i \in held :
                         secrets' = [secrets EXCEPT ![i].updated_at = now]
                   /\ secret_count' = secret_count
              ELSE /\ \E i \in Index \ InUse(secrets) :
                         /\ secrets'[i].in_use
                         /\ secrets'[i].name = cmd.name
                         /\ secrets'[i].created_at = now
                         /\ secrets'[i].updated_at = now
                         /\ \A j \in Index \ {i} : secrets'[j] = secrets[j]
                   /\ secret_count' = secret_count + 1]_vars

\* a ROTATE at time 1 of one of two entries created at time 0
C35_Witness ==
    /\ LastIs("ROTATE")
    /\ resp.ok
    /\ secret_count = 2
    /\ \E i, j \in InUse(secrets) :
          /\ secrets[i].name = LastCmd.name
          /\ secrets[i].created_at = U32(0)
          /\ secrets[i].updated_at = U32(1)
          /\ j # i
          /\ secrets[j].updated_at = U32(0)

(***************************************************************************)
(* avp_session_invalidate and avp_init                                     *)
(***************************************************************************)
\* C36: avp_session_invalidate clears the active flag and zeroes the session
\* id and leaves pin_attempts and the index as they were; from then on, at
\* every clock value, the session stays inactive until an AUTHENTICATE is
\* answered with success, and every request that needs a session fails with
\* NOT_AUTHENTICATED meanwhile.
C36_InvalidateEndsSession ==
    /\ [][StepIs("avp_session_invalidate") =>
             /\ ~session'.active
             /\ session'.session_id = ""
             /\ session'.pin_attempts = session.pin_attempts
             /\ secrets' = secrets
             /\ secret_count' = secret_count]_vars
    /\ [][(~session.active /\ session'.active) =>
             (StepOp("AUTHENTICATE") /\ resp'.ok)]_vars
    /\ []((SessionRequest /\ ~session.active) =>
             Failed(resp, "AVP_ERR_NOT_AUTHENTICATED"))

\* a STORE refused at a time within the lifetime of a session that was
\* invalidated (its id is zeroed, its ttl is still there)
C36_Witness ==
    /\ LastIs("STORE")
    /\ Failed(resp, "AVP_ERR_NOT_AUTHENTICATED")
    /\ ~session.active
    /\ session.session_id = ""
    /\ session.ttl # U32(0)
    /\ InLifetime(session, last.t)

\* C38: secret_count is the number of entries that are in_use, never below
\* 0 and never above 32.
C38_CountIsOccupancy ==
    /\ secret_count = Cardinality(InUse(secrets))
    /\ secret_count >= 0
    /\ secret_count <= AVP_MAX_SECRETS

\* the index filled to its last entry after a DELETE had freed one
C38_Witness ==
    /\ secret_count = AVP_MAX_SECRETS
    /\ LastIs("STORE")
    /\ resp.ok
    /\ secrets[0].created_at = U32(1)

\* C39: RETRIEVE, LIST, HW_SIGN and HW_ATTEST never change the index or
\* pin_attempts, and served with a valid session they leave the whole
\* session record as it was.
C39_ReadsChangeNothing ==
    [][(StepOp("RETRIEVE") \/ StepOp("LIST") \/ StepOp("HW_SIGN")
            \/ StepOp("HW_ATTEST")) =>
          /\ secrets' = secrets
          /\ secret_count' = secret_count
          /\ session'.pin_attempts = session.pin_attempts
          /\ avp_session_valid(session, now).valid => session' = session]_vars

\* a LIST answered with success at time 1 in a session opened at time 0,
\* with an entry in the index and a refused PIN counted
C39_Witness ==
    /\ LastIs("LIST")
    /\ resp.ok
    /\ last.t # session.created_at
    /\ session.pin_attempts > 0
    /\ secret_count = 1

\* the requests of the backend inputs that need a session
BackendSessionReqs ==
    {json \in Requests(BackendInputs) : Parse(json).cmd.op \in SessionOps}

\* C37: avp_init with a context, a clock and an RNG returns AVP_OK and
\* leaves the initial context whatever it was before: no active session,
\* pin_attempts 0, no entry in_use, count 0, so that a first request that
\* needs a session fails with NOT_AUTHENTICATED; without one of the three it
\* returns INVALID_PARAMETER and leaves the context as it was.
C37_InitResets ==
    /\ [][StepIs("avp_init") =>
             IF ret' = "AVP_OK"
             THEN /\ ~session'.active
                  /\ session'.pin_attempts = 0
                  /\ InUse(secrets') = {}
                  /\ secret_count' = 0
                  /\ session' = ZeroSession
                  /\ \A json \in BackendSessionReqs :
                        Failed(Dispatch([session |-> session',
                                         secrets |-> secrets',
                                         secret_count |-> secret_count'],
                                        json, now, Rand(1, 64)).resp,
                               "AVP_ERR_NOT_AUTHENTICATED")
             ELSE /\ ret' = "AVP_ERR_INVALID_PARAM"
                  /\ UNCHANGED <<session, secrets, secret_count,
                                 tropic_handle>>]_vars
    /\ [](\A ctx, get_time, rng \in BOOLEAN :
             avp_init_on(Ctx, tropic_handle, ctx, "NULL", get_time, rng).ret
                 = IF ctx /\ get_time /\ rng THEN "AVP_OK"
                   ELSE "AVP_ERR_INVALID_PARAM")

\* avp_init returned AVP_OK at time 1 on a context to which the secure
\* element had been attached
C37_Witness ==
    /\ last.call = "avp_init"
    /\ ret = "AVP_OK"
    /\ session = ZeroSession
    /\ secret_count = 0
    /\ lt_initialized
    /\ now = U32(1)

\* C40: whenever avp_tropic_init returns AVP_OK the context has a handle,
\* so that a slot operation on it does not fail with HARDWARE_ERROR for
\* lack of one, after every sequence of avp_init, avp_tropic_init and
\* avp_tropic_deinit calls.
C40_InitAttachesHandle ==
    (last.call = "avp_tropic_init" /\ ret = "AVP_OK") =>
        /\ tropic_handle # "NULL"
        /\ avp_tropic_store(tropic_handle, lt_initialized,
                            SLOT_SECRETS_START, 1, TRUE) = "AVP_OK"

====
